---------------------------- MODULE Spec2Model ----------------------------
(* Model of backend/server.py: the four scrapers (scrape_ahlatci,          *)
(* scrape_haremaltin, scrape_hakandoviz, scrape_carsidoviz), the           *)
(* asyncio.gather fan-out of get_rates, and the rates_cache dictionary     *)
(* with its 'updating' flag.                                               *)
(*                                                                         *)
(* Texts are sequences of one-character strings; prices are integers in    *)
(* units of 1/10000 (Scale), so that "41,82" parses to 418200.             *)
(* The interpreter is CPython >= 3.8: asyncio.CancelledError derives from  *)
(* BaseException and is caught by no "except Exception" clause.            *)
EXTENDS Integers, Sequences, FiniteSets, TLC

VARIABLES
    rates_cache,   \* the module-level dict: data, last_updated, updating
    now,           \* the wall clock read by time.time(), in seconds
    calls,         \* one record per request: the position of its get_rates coroutine
    ncalls,        \* number of requests received so far
    nobj,          \* number of AllRatesResponse objects constructed so far
    sent           \* the request answered last, and what get_rates returned or raised

vars == <<rates_cache, now, calls, ncalls, nobj, sent>>

-----------------------------------------------------------------------------
(* Bounds of the model *)

\* total number of requests received in one behaviour; request c is the
\* c-th one received, and any number of them can be in flight together
MaxCalls == 3
\* number of clock ticks after process start
MaxTicks == 5

Callers == 1..MaxCalls

\* number of <tr>, <li> or block elements of a page
MaxRows == 2

-----------------------------------------------------------------------------
(* Program constants *)

cache_duration == 5

NAdapters == 4

source_names == <<"Ahlatci Doviz", "Harem Altin", "Hakan Doviz", "Carsi Doviz">>

urls == << "https://www.ahlatcidoviz.com.tr",
           "https://www.haremaltin.com/?lang=en",
           "https://www.hakandoviz.com/canli-piyasalar",
           "https://carsidoviz.com" >>

None == [kind |-> "None"]

-----------------------------------------------------------------------------
(* str operations used by the scrapers *)

Digits == <<"0", "1", "2", "3", "4", "5", "6", "7", "8", "9">>

IsDigit(ch) == \E d \in 1..10 : Digits[d] = ch

DigitVal(ch) == (CHOOSE d \in 1..10 : Digits[d] = ch) - 1

\* s[a:b] of Python, 0-based, clipped to the length of s
Slice(s, a, b) ==
    LET hi == IF b > Len(s) THEN Len(s) ELSE b
    IN  IF a >= hi THEN << >> ELSE SubSeq(s, a + 1, hi)

StartsWith(s, p) == Len(p) <= Len(s) /\ SubSeq(s, 1, Len(p)) = p

\* p in s
Contains(s, p) == \E i \in 0..(Len(s) - Len(p)) : SubSeq(s, i + 1, i + Len(p)) = p

\* s.replace(old, new), old non-empty
RECURSIVE Replace(_, _, _)
Replace(s, old, new) ==
    IF s = << >> THEN << >>
    ELSE IF StartsWith(s, old)
         THEN new \o Replace(Slice(s, Len(old), Len(s)), old, new)
         ELSE <<Head(s)>> \o Replace(Tail(s), old, new)

\* s.split(sep) for a one-character separator
RECURSIVE Split(_, _)
Split(s, sep) ==
    IF ~ \E i \in 1..Len(s) : s[i] = sep THEN <<s>>
    ELSE LET i == CHOOSE k \in 1..Len(s) : s[k] = sep /\ \A j \in 1..(k - 1) : s[j] # sep
         IN  <<SubSeq(s, 1, i - 1)>> \o Split(Slice(s, i, Len(s)), sep)

Lower == <<"a", "b", "c", "d", "e", "f", "g", "h", "i", "j", "k", "l", "m",
           "n", "o", "p", "q", "r", "s", "t", "u", "v", "w", "x", "y", "z">>

Capital == <<"A", "B", "C", "D", "E", "F", "G", "H", "I", "J", "K", "L", "M",
             "N", "O", "P", "Q", "R", "S", "T", "U", "V", "W", "X", "Y", "Z">>

UpperChar(ch) ==
    IF \E k \in 1..26 : Lower[k] = ch
    THEN Capital[CHOOSE k \in 1..26 : Lower[k] = ch]
    ELSE ch

\* s.upper()
Upper(s) == [i \in 1..Len(s) |-> UpperChar(s[i])]

RECURSIVE DigitsVal(_)
DigitsVal(s) ==
    IF s = << >> THEN 0 ELSE DigitsVal(SubSeq(s, 1, Len(s) - 1)) * 10 + DigitVal(s[Len(s)])

Pow10(n) == IF n = 0 THEN 1 ELSE IF n = 1 THEN 10 ELSE IF n = 2 THEN 100
            ELSE IF n = 3 THEN 1000 ELSE 10000

\* prices carry four decimals
Scale == Pow10(4)

\* float(s): [ok |-> FALSE] stands for ValueError; the value is in units of
\* 1/Scale.  Accepted: an optional sign, digits with at most one '.', and at
\* least one digit (the decimal literals of the pages; no exponent, inf, nan).
Float(s) ==
    LET signed == s # << >> /\ s[1] \in {"+", "-"}
        body   == IF signed THEN Tail(s) ELSE s
        dots   == {i \in 1..Len(body) : body[i] = "."}
        wellformed ==
            /\ Cardinality(dots) <= 1
            /\ \A i \in 1..Len(body) : IsDigit(body[i]) \/ body[i] = "."
            /\ \E i \in 1..Len(body) : IsDigit(body[i])
        dot    == IF dots = {} THEN Len(body) + 1 ELSE CHOOSE i \in dots : TRUE
        ipart  == SubSeq(body, 1, dot - 1)
        fpart  == Slice(body, dot, dot + 4)
        mag    == DigitsVal(ipart) * Scale + DigitsVal(fpart) * Pow10(4 - Len(fpart))
    IN  IF wellformed
        THEN [ok |-> TRUE, val |-> IF signed /\ s[1] = "-" THEN 0 - mag ELSE mag]
        ELSE [ok |-> FALSE, val |-> 0]

-----------------------------------------------------------------------------
(* Pydantic models *)

Curr == [USD |-> <<"U", "S", "D">>, EUR |-> <<"E", "U", "R">>,
         GBP |-> <<"G", "B", "P">>, CHF |-> <<"C", "H", "F">>,
         XAU |-> <<"X", "A", "U">>]

Str(s) == [kind |-> "str", val |-> s]

ExchangeRate(currency, buy, sell) == [currency |-> currency, buy |-> buy, sell |-> sell]

\* last_updated, an ISO string that no branch of the program reads, is left out
SourceRates(source, url, rates, status, error_message) ==
    [kind |-> "SourceRates", source |-> source, url |-> url, rates |-> rates,
     status |-> status, error_message |-> error_message]

\* the exception object an awaited coroutine ends with
CancelledError == [kind |-> "CancelledError"]

IsSourceRates(r) == r.kind = "SourceRates"

\* isinstance(r, Exception): CancelledError is a BaseException only
IsException(r) == r.kind = "Exception"

EmptyDict == << >>

\* rates[key] = value
DictSet(rates, key, value) == (key :> value) @@ rates

-----------------------------------------------------------------------------
(* scrape_with_playwright: the page load is the environment's input.        *)
(* load.kind is "ok" (page.content() returned load.doc), "TimeoutError"     *)
(* (page.goto timed out), "Error" (launch or navigation failed) or          *)
(* "CancelledError" (the task running the scraper was cancelled).           *)

scrape_with_playwright(load) ==
    IF load.kind = "ok" THEN [kind |-> "soup", doc |-> load.doc]
    ELSE IF load.kind = "CancelledError" THEN CancelledError
    ELSE None

\* the browser of one call: each call launches its own (line 75), no browser
\* object lives outside the call
Launched == {"browser"}

\* "await browser.close()" (line 80) is reached when page.content() returned;
\* BeautifulSoup runs after it
CloseReached(load) == load.kind \in {"ok", "ParseError"}

\* playwright started and never stopped: nothing is released on exit
PlaywrightExit_leak(open) == open

\* leaving "async with async_playwright() as p" (line 74), by return or by an
\* exception or cancellation passing through: the context manager stops the
\* Playwright driver, which ends every browser launched through p
PlaywrightExit(open) == {}

\* the browsers of a scrape_with_playwright call still open once it is over
open_browsers(load) ==
    PlaywrightExit(IF CloseReached(load) THEN Launched \ {"browser"} ELSE Launched)

\* the tail of a scraper with the test on rates inverted
ScrapeReturn_inverted(i, rates) ==
    SourceRates(source_names[i], urls[i], rates,
                IF DOMAIN rates = {} THEN "success" ELSE "error",
                IF DOMAIN rates = {} THEN Str("No rates found") ELSE None)

\* the tail of a scraper that leaves error_message unset
ScrapeReturn_nomsg(i, rates) ==
    SourceRates(source_names[i], urls[i], rates,
                IF DOMAIN rates # {} THEN "success" ELSE "error", None)

\* the tail of every scraper: the SourceRates built from the extracted rates
ScrapeReturn(i, rates) ==
    SourceRates(source_names[i], urls[i], rates,
                IF DOMAIN rates # {} THEN "success" ELSE "error",
                IF DOMAIN rates = {} THEN Str("No rates found") ELSE None)

\* the "except Exception as e" branch of every scraper
ScrapeExcept(i, msg) ==
    SourceRates(source_names[i], urls[i], EmptyDict, "error", Str(msg))

\* a scraper without its outer try/except
ScrapeFrame_noexcept(i, load, extracted) ==
    LET soup == scrape_with_playwright(load)
    IN  IF soup = CancelledError THEN CancelledError
        ELSE IF soup = None THEN [kind |-> "Exception", msg |-> "Failed to load page"]
        ELSE ScrapeReturn(i, extracted)

\* the frame shared by the four scrapers: load, extract, convert failures
ScrapeFrame(i, load, extracted) ==
    LET soup == scrape_with_playwright(load)
    IN  IF soup = CancelledError THEN CancelledError
        ELSE IF soup = None THEN ScrapeExcept(i, "Failed to load page")
        ELSE ScrapeReturn(i, extracted)

-----------------------------------------------------------------------------
(* scrape_ahlatci *)

\* one <tr> read without the test "buy > 0 and sell > 0"
ahlatci_row_nocheck(rates, cols) ==
    IF Len(cols) >= 3 /\ \E c \in DOMAIN Curr : cols[1] = Curr[c]
    THEN LET currency == CHOOSE c \in DOMAIN Curr : cols[1] = Curr[c]
             buy  == Float(Replace(cols[2], <<",">>, <<".">>))
             sell == Float(Replace(cols[3], <<",">>, <<".">>))
         IN  IF buy.ok /\ sell.ok
             THEN DictSet(rates, currency, ExchangeRate(currency, buy.val, sell.val))
             ELSE rates
    ELSE rates

\* one <tr>: cols is the sequence of the cells' get_text(strip=True)
ahlatci_row(rates, cols) ==
    IF Len(cols) >= 3 /\ \E c \in DOMAIN Curr : cols[1] = Curr[c]
    THEN LET currency == CHOOSE c \in DOMAIN Curr : cols[1] = Curr[c]
             buy  == Float(Replace(cols[2], <<",">>, <<".">>))
             sell == Float(Replace(cols[3], <<",">>, <<".">>))
         IN  IF buy.ok /\ sell.ok /\ buy.val > 0 /\ sell.val > 0
             THEN DictSet(rates, currency, ExchangeRate(currency, buy.val, sell.val))
             ELSE rates
    ELSE rates

RECURSIVE ahlatci_rows(_, _)
ahlatci_rows(rates, rows) ==
    IF rows = << >> THEN rates
    ELSE ahlatci_rows(ahlatci_row(rates, Head(rows)), Tail(rows))

\* scrape_ahlatci without the inner try/except around a row: the ValueError
\* of an unparsable price reaches the outer except
scrape_ahlatci_strict(load) ==
    IF /\ load.kind = "ok"
       /\ \E k \in DOMAIN load.doc.trs :
             LET cols == load.doc.trs[k]
             IN  /\ Len(cols) >= 3
                 /\ \E c \in DOMAIN Curr : cols[1] = Curr[c]
                 /\ \/ ~Float(Replace(cols[2], <<",">>, <<".">>)).ok
                    \/ ~Float(Replace(cols[3], <<",">>, <<".">>)).ok
    THEN ScrapeExcept(1, "could not convert string to float")
    ELSE ScrapeFrame(1, load, IF load.kind = "ok" THEN ahlatci_rows(EmptyDict, load.doc.trs) ELSE EmptyDict)

scrape_ahlatci(load) ==
    ScrapeFrame(1, load, IF load.kind = "ok" THEN ahlatci_rows(EmptyDict, load.doc.trs) ELSE EmptyDict)

-----------------------------------------------------------------------------
(* scrape_haremaltin *)

\* buy_text/sell_text of the currency rows: ',' to '.', blanks removed
CommaToDot(text) == Replace(Replace(text, <<",">>, <<".">>), <<" ">>, << >>)

\* "6.070,20": '.' groups thousands, ',' is the decimal separator
GoldText(text) ==
    Replace(Replace(Replace(text, <<" ">>, << >>), <<".">>, << >>), <<",">>, <<".">>)

GoldMin == 100 * Scale

harem_currency(rates, cols, currency) ==
    LET code_text == Upper(cols[1])
        buy  == Float(CommaToDot(cols[2]))
        sell == Float(CommaToDot(cols[3]))
    IN  IF \/ code_text = Curr[currency]
           \/ Contains(code_text, Curr[currency] \o <<"/", "T", "R", "Y">>)
           \/ Contains(code_text, Curr[currency])
        THEN IF buy.ok /\ sell.ok /\ buy.val > 0 /\ sell.val > 0
                /\ currency \notin DOMAIN rates
             THEN DictSet(rates, currency, ExchangeRate(currency, buy.val, sell.val))
             ELSE rates
        ELSE rates

harem_gold(rates, cols) ==
    LET code_text == Upper(cols[1])
        buy  == Float(GoldText(cols[2]))
        sell == Float(GoldText(cols[3]))
    IN  IF Contains(Replace(code_text, <<" ">>, << >>), <<"G", "O", "L", "D", "T", "R", "Y">>)
           /\ "XAU" \notin DOMAIN rates
        THEN IF buy.ok /\ sell.ok /\ buy.val > GoldMin /\ sell.val > GoldMin
             THEN DictSet(rates, "XAU", ExchangeRate("XAU", buy.val, sell.val))
             ELSE rates
        ELSE rates

harem_row(rates, cols) ==
    IF Len(cols) >= 3
    THEN harem_gold(
             harem_currency(harem_currency(harem_currency(harem_currency(
                 rates, cols, "USD"), cols, "EUR"), cols, "GBP"), cols, "CHF"),
             cols)
    ELSE rates

RECURSIVE harem_rows(_, _)
harem_rows(rates, rows) ==
    IF rows = << >> THEN rates
    ELSE harem_rows(harem_row(rates, Head(rows)), Tail(rows))

scrape_haremaltin(load) ==
    ScrapeFrame(2, load, IF load.kind = "ok" THEN harem_rows(EmptyDict, load.doc.trs) ELSE EmptyDict)

-----------------------------------------------------------------------------
(* scrape_hakandoviz: the page is a list of <li> texts such as             *)
(* "USD/TRY41,821442,0130"                                                  *)

SlashTRY == <<"/", "T", "R", "Y">>

hakan_currency(rates, text, curr_code) ==
    LET currency  == Curr[curr_code] \o SlashTRY
        remaining == Replace(text, currency, << >>)
        parts     == Split(remaining, ",")
        buy_str   == IF Len(parts[2]) >= 4
                     THEN parts[1] \o <<".">> \o Slice(parts[2], 0, 4)
                     ELSE parts[1]
        sell_str  == IF Len(parts[2]) > 4
                     THEN IF Len(parts) > 2
                          THEN Slice(parts[2], 4, Len(parts[2])) \o <<".">> \o Slice(parts[3], 0, 4)
                          ELSE Slice(parts[2], 4, Len(parts[2]))
                     ELSE parts[2]
        buy  == Float(Replace(buy_str, <<",">>, <<".">>))
        sell == Float(Replace(sell_str, <<",">>, <<".">>))
    IN  IF Contains(text, currency) /\ Len(parts) >= 2
        THEN IF buy.ok /\ sell.ok /\ buy.val > 0 /\ sell.val > 0
                /\ curr_code \notin DOMAIN rates
             THEN DictSet(rates, curr_code, ExchangeRate(curr_code, buy.val, sell.val))
             ELSE rates
        ELSE rates

hakan_gold(rates, text) ==
    LET has       == <<"H", "A", "S">> \o SlashTRY
        remaining == Replace(text, has, << >>)
        parts     == Split(remaining, ",")
        buy_str   == Replace(parts[1], <<".">>, << >>) \o <<".">> \o Slice(parts[2], 0, 2)
        sell_str  == Replace(Slice(parts[2], 2, Len(parts[2])), <<".">>, << >>)
                         \o <<".">> \o Slice(parts[3], 0, 2)
        buy  == Float(buy_str)
        sell == Float(sell_str)
    IN  IF Contains(text, has) /\ "XAU" \notin DOMAIN rates /\ Len(parts) >= 3
        THEN IF buy.ok /\ sell.ok /\ buy.val > GoldMin /\ sell.val > GoldMin
             THEN DictSet(rates, "XAU", ExchangeRate("XAU", buy.val, sell.val))
             ELSE rates
        ELSE rates

hakan_li(rates, text) ==
    hakan_gold(
        hakan_currency(hakan_currency(hakan_currency(hakan_currency(
            rates, text, "USD"), text, "EUR"), text, "GBP"), text, "CHF"),
        text)

RECURSIVE hakan_lis(_, _)
hakan_lis(rates, lis) ==
    IF lis = << >> THEN rates
    ELSE hakan_lis(hakan_li(rates, Head(lis)), Tail(lis))

scrape_hakandoviz(load) ==
    ScrapeFrame(3, load, IF load.kind = "ok" THEN hakan_lis(EmptyDict, load.doc.lis) ELSE EmptyDict)

-----------------------------------------------------------------------------
(* scrape_carsidoviz *)

\* the characters outside ASCII are written as one token each
I_dot == "I_dot"
C_ced == "C_ced"

\* currency_mapping, in insertion order
currency_mapping ==
    << <<<<"D", "O", "L", "A", "R">>, "USD">>,
       <<Curr.USD, "USD">>,
       <<<<"E", "U", "R", "O">>, "EUR">>,
       <<Curr.EUR, "EUR">>,
       <<<<"S", "T", "E", "R", "L", I_dot, "N">>, "GBP">>,
       <<<<"S", "T", "E", "R", "L", "I", "N">>, "GBP">>,
       <<Curr.GBP, "GBP">>,
       <<<<I_dot, "S", "V", I_dot, C_ced, "R", "E", " ", "F", "R", "A", "N", "G", "I">>, "CHF">>,
       <<Curr.CHF, "CHF">>,
       <<<<"A", "L", "T", "I", "N">>, "XAU">>,
       <<Curr.XAU, "XAU">> >>

\* Strategy 1, one <tr>
carsi_row(rates, cols) ==
    IF Len(cols) >= 3
    THEN LET code == Upper(cols[1])
             hits == {k \in DOMAIN currency_mapping : Contains(code, currency_mapping[k][1])}
             first == CHOOSE k \in hits : \A j \in hits : k <= j
             mapped_currency == currency_mapping[first][2]
             buy  == Float(CommaToDot(cols[2]))
             sell == Float(CommaToDot(cols[3]))
         IN  IF hits # {} /\ mapped_currency \notin DOMAIN rates
             THEN IF buy.ok /\ sell.ok /\ buy.val > 0 /\ sell.val > 0
                  THEN DictSet(rates, mapped_currency,
                               ExchangeRate(mapped_currency, buy.val, sell.val))
                  ELSE rates
             ELSE rates
    ELSE rates

RECURSIVE carsi_rows(_, _)
carsi_rows(rates, rows) ==
    IF rows = << >> THEN rates
    ELSE carsi_rows(carsi_row(rates, Head(rows)), Tail(rows))

\* one match of \d{2}[.,]\d{4} at the head of s
NumberAtHead(s) ==
    /\ Len(s) >= 7
    /\ IsDigit(s[1]) /\ IsDigit(s[2])
    /\ s[3] \in {".", ","}
    /\ \A i \in 4..7 : IsDigit(s[i])

\* re.findall(r'(\d{2}[.,]\d{4})', s)
RECURSIVE FindNumbers(_)
FindNumbers(s) ==
    IF s = << >> THEN << >>
    ELSE IF NumberAtHead(s)
         THEN <<SubSeq(s, 1, 7)>> \o FindNumbers(Slice(s, 7, Len(s)))
         ELSE FindNumbers(Tail(s))

\* Strategy 2, one currency_mapping entry for one <div>/<span>/<p>
carsi_div_entry(rates, div, k) ==
    LET text == Upper(div.text)
        turkish_name == currency_mapping[k][1]
        english_code == currency_mapping[k][2]
        numbers == FindNumbers(div.parent_text)
        buy  == Float(Replace(numbers[1], <<",">>, <<".">>))
        sell == Float(Replace(numbers[2], <<",">>, <<".">>))
    IN  IF Contains(text, turkish_name) /\ english_code \notin DOMAIN rates
           /\ Len(numbers) >= 2
        THEN IF buy.ok /\ sell.ok /\ buy.val > 0 /\ sell.val > 0
             THEN DictSet(rates, english_code, ExchangeRate(english_code, buy.val, sell.val))
             ELSE rates
        ELSE rates

RECURSIVE carsi_div(_, _, _)
carsi_div(rates, div, k) ==
    IF k > Len(currency_mapping) THEN rates
    ELSE carsi_div(carsi_div_entry(rates, div, k), div, k + 1)

RECURSIVE carsi_divs(_, _)
carsi_divs(rates, divs) ==
    IF divs = << >> THEN rates
    ELSE carsi_divs(carsi_div(rates, Head(divs), 1), Tail(divs))

carsi_extract(doc) ==
    LET rates == carsi_rows(EmptyDict, doc.trs)
    IN  IF DOMAIN rates = {} THEN carsi_divs(rates, doc.divs) ELSE rates

scrape_carsidoviz(load) ==
    ScrapeFrame(4, load, IF load.kind = "ok" THEN carsi_extract(load.doc) ELSE EmptyDict)

\* the coroutine objects handed to asyncio.gather, in argument order
Scraper(i, load) ==
    CASE i = 1 -> scrape_ahlatci(load)
      [] i = 2 -> scrape_haremaltin(load)
      [] i = 3 -> scrape_hakandoviz(load)
      [] i = 4 -> scrape_carsidoviz(load)

-----------------------------------------------------------------------------
(* Pages served by the four sites: the inputs of the model *)

Doc(trs, lis, divs) == [trs |-> trs, lis |-> lis, divs |-> divs]

TxtUSD == Curr.USD
Txt4182 == <<"4", "1", ",", "8", "2">>
Txt4201 == <<"4", "2", ",", "0", "1">>
TxtHakanUSD == <<"U", "S", "D", "/", "T", "R", "Y", "4", "1", ",", "8", "2", "1", "4",
                 "4", "2", ",", "0", "1", "3", "0">>

\* a page every scraper finds one USD quote in
PageUSD == Doc(<< <<TxtUSD, Txt4182, Txt4201>> >>, <<TxtHakanUSD>>, << >>)

\* a page without any table row, list item or block
PageEmpty == Doc(<< >>, << >>, << >>)

LoadOk(doc) == [kind |-> "ok", doc |-> doc]
LoadFail(kind) == [kind |-> kind, doc |-> PageEmpty]

\* a page whose candidates all fail: float() raises ValueError on "4x", the
\* <li> has no number after the pair, the block has no number near it
Txt4x == <<"4", "x">>
TxtHakanBad == <<"U", "S", "D", "/", "T", "R", "Y", "a", ",", "b">>
PageBad == Doc(<< <<TxtUSD, Txt4x, Txt4201>> >>, <<TxtHakanBad>>,
               << [text |-> TxtUSD, parent_text |-> TxtUSD] >>)

\* the outcomes of one page load, as the model of the gather draws them
OrchLoads ==
    { LoadOk(PageUSD), LoadOk(PageEmpty), LoadOk(PageBad),
      LoadFail("TimeoutError"), LoadFail("Error"), LoadFail("CancelledError") }

NoLoad == [kind |-> "none", doc |-> PageEmpty]

\* ---- the pages the scrapers are run on one by one ----

Txt4310 == <<"4", "3", ",", "1", "0">>
Txt4390 == <<"4", "3", ",", "9", "0">>
Txt0 == <<"0">>
TxtNeg == <<"-", "1">>
Txt6070 == <<"6", ".", "0", "7", "0", ",", "2", "0">>
Txt6141 == <<"6", ".", "1", "4", "1", ",", "0", "0">>
TxtGoldTry == <<"G", "o", "l", "d", " ", "T", "R", "Y">>
TxtDolar == <<"D", "o", "l", "a", "r">>
TxtJPY == <<"J", "P", "Y">>

\* the <tr> elements: a row is the sequence of its cells' texts
RowSet ==
    { <<TxtUSD, Txt4182, Txt4201>>,       \* a quote
       <<TxtUSD, Txt4310, Txt4390>>,       \* the same code, other prices
       <<TxtUSD, Txt0, Txt4201>>,          \* buy is zero
       <<TxtUSD, Txt4182, TxtNeg>>,        \* sell is negative
       <<TxtUSD, Txt4x, Txt4201>>,         \* float() raises ValueError
       <<TxtUSD, Txt4182>>,                \* two cells only
       <<Curr.EUR, Txt4182, Txt4201>>,
       <<Curr.GBP, Txt4310, Txt4390>>,
       <<Curr.CHF, Txt4182, Txt4201>>,
       <<Curr.XAU, Txt4310, Txt4390>>,
       <<TxtGoldTry, Txt6070, Txt6141>>,   \* "6.070,20": thousands dot, decimal comma
       <<TxtGoldTry, Txt4182, Txt4201>>,   \* gold below the sanity threshold
       <<TxtDolar, Txt4310, Txt4390>>,     \* a Turkish name
       <<TxtJPY, Txt4182, Txt4201>> }      \* no currency the scrapers look for

TxtHakanUSD2 == <<"U", "S", "D", "/", "T", "R", "Y", "4", "3", ",", "1", "0", "0", "0", "4", "3", ",", "9", "0", "0", "0">>
TxtHakanZero == <<"U", "S", "D", "/", "T", "R", "Y", "0", ",", "0", "0", "0", "0", "0", ",", "0", "0", "0", "0">>
TxtHakanEUR == <<"E", "U", "R", "/", "T", "R", "Y", "4", "8", ",", "5", "0", "0", "0", "4", "9", ",", "1", "0", "0", "0">>
TxtHakanGold == <<"H", "A", "S", "/", "T", "R", "Y", "6", ".", "0", "9", "0", ",", "0", "0", "6", ".", "1", "4", "1", ",", "0", "0">>
TxtHakanLowGold == <<"H", "A", "S", "/", "T", "R", "Y", "5", "0", ",", "0", "0", "6", "0", ",", "0", "0">>
TxtHakanJPY == <<"J", "P", "Y", "/", "T", "R", "Y", "0", ",", "2", "7", "5", "0", "0", ",", "2", "8", "0", "0">>

\* the <li> elements, by their text
LiSet ==
    { TxtHakanUSD, TxtHakanUSD2, TxtHakanZero, TxtHakanBad, TxtHakanEUR,
       TxtHakanGold, TxtHakanLowGold, TxtHakanJPY }

Block(text, parent_text) == [text |-> text, parent_text |-> parent_text]

\* the <div>, <span> and <p> elements, by their text and their parent's text
DivSet ==
    { Block(TxtDolar, <<"D", "o", "l", "a", "r", "4", "1", ",", "8", "2", "1", "4", "4", "2", ",", "0", "1", "3", "0">>),
       Block(TxtUSD, <<"U", "S", "D", "4", "3", ",", "1", "0", "0", "0", "4", "3", ",", "9", "0", "0", "0">>),
       Block(<<"E", "u", "r", "o">>, <<"E", "u", "r", "o", "4", "8", ",", "5", "0", "0", "0">>),             \* one number only
       Block(<<"A", "l", "t", "i", "n">>, <<"A", "l", "t", "i", "n", "0", "0", ",", "0", "0", "0", "0", "0", "0", ",", "0", "0", "0", "0">>),    \* prices are zero
       Block(TxtJPY, <<"J", "P", "Y", "4", "1", ",", "8", "2", "1", "4", "4", "2", ",", "0", "1", "3", "0">>) }

SeqUpTo(S, n) == UNION {[1..k -> S] : k \in 0..n}

\* pages made of table rows, of list items, of blocks, and of a row with a block
Pages ==
    {Doc(trs, << >>, << >>) : trs \in SeqUpTo(RowSet, MaxRows)}
    \cup {Doc(<< >>, lis, << >>) : lis \in SeqUpTo(LiSet, MaxRows)}
    \cup {Doc(<< >>, << >>, divs) : divs \in SeqUpTo(DivSet, MaxRows)}
    \cup {Doc(<<r>>, << >>, <<d>>) : r \in RowSet, d \in DivSet}

\* the page loads: a rendered page, or a failure in page.goto ("TimeoutError",
\* "Error"), in page.content() ("ContentError"), in BeautifulSoup after
\* browser.close() ("ParseError"), or the cancellation of the task
ScrapeLoads ==
    {LoadOk(doc) : doc \in Pages}
    \cup {LoadFail(k) : k \in {"TimeoutError", "Error", "ContentError", "ParseError",
                               "CancelledError"}}

\* the outcomes of the four page loads of one refresh, as the cache model
\* draws them: two sources time out, or the task of one scraper is cancelled
LoadVectors ==
    { [i \in 1..NAdapters |-> IF i \in {2, 4} THEN LoadFail("TimeoutError") ELSE LoadOk(PageUSD)],
      [i \in 1..NAdapters |-> IF i = 3 THEN LoadFail("CancelledError") ELSE LoadOk(PageUSD)] }

-----------------------------------------------------------------------------
(* get_rates *)

Pending == [kind |-> "pending"]

AllPending == [i \in 1..NAdapters |-> Pending]

HTTPException(status_code) == [kind |-> "HTTPException", status_code |-> status_code]

\* id is the identity of the Python object; timestamp, an ISO string that no
\* branch of the program reads, is left out
AllRatesResponse(id, sources) ==
    [kind |-> "AllRatesResponse", id |-> id, sources |-> sources]

\* loads[i] is the page load the i-th scraper met, results[i] what its task ended with
Idle == [pc |-> "idle", op |-> "none", current_time |-> 0,
         loads |-> [i \in 1..NAdapters |-> NoLoad], results |-> AllPending]

Closed == [Idle EXCEPT !.pc = "closed"]

\* get_rates of request c, entered through op, ends with ret
Sent(c, op, ret) == [call |-> c, op |-> op, ret |-> ret]

\* the freshness test left out
IsFresh_never(cache, current_time) == FALSE

\* "If cache exists and is valid"
IsFresh(cache, current_time) ==
    cache.data # None /\ (current_time - cache.last_updated) < cache_duration

\* the stale-while-updating test left out
IsStaleInFlight_never(cache) == FALSE

\* "If cache is expired but an update is in progress"
IsStaleInFlight(cache) == cache.updating /\ cache.data # None

\* rates_cache['updating'] = True
MarkUpdating(cache) == [cache EXCEPT !.updating = TRUE]

\* the "Update cache" assignments
Commit(cache, response, current_time) ==
    [cache EXCEPT !.data = response, !.last_updated = current_time]

\* the flag cleared on the error path only
Finally_skip(cache) == cache

\* the finally block
Finally(cache) == [cache EXCEPT !.updating = FALSE]

\* an except handler that also drops the stored value
ExceptClear_reset(cache) ==
    [cache EXCEPT !.updating = FALSE, !.data = None, !.last_updated = 0]

\* the assignment of the outer "except Exception" handler
ExceptClear(cache) == [cache EXCEPT !.updating = FALSE]

\* a cached return placed inside the inner try: the finally block runs
ReturnCached_finally(cache) == [cache EXCEPT !.updating = FALSE]

\* "return rates_cache['data']" of the two cached paths: before the inner
\* try, so neither finally nor except runs and the cache is left as it is
ReturnCached(cache) == cache

\* results collected in completion order, as asyncio.as_completed would
GatherSlot_completion(i, ndone) == ndone + 1

\* the position in the list returned by asyncio.gather of the awaitable given
\* as the i-th argument, when ndone awaitables had completed before it
GatherSlot(i, ndone) == i

\* the loop over enumerate(results)
final_results(results) ==
    [i \in 1..Len(results) |->
        IF IsException(results[i])
        THEN SourceRates(source_names[i], urls[i], EmptyDict, "error", Str(results[i].msg))
        ELSE results[i]]

\* pydantic validation of AllRatesResponse(sources=...): List[SourceRates]
ValidSources(sources) == \A i \in 1..Len(sources) : IsSourceRates(sources[i])

\* the synchronous prefix of get_rates, up to the await of asyncio.gather
Enter(c, op) ==
    /\ c = ncalls + 1
    /\ calls[c].pc = "idle"
    /\ ncalls' = ncalls + 1
    /\ LET current_time == now
       IN  IF IsFresh(rates_cache, current_time) \/ IsStaleInFlight(rates_cache)
           THEN /\ calls' = [calls EXCEPT ![c] = Closed]
                /\ sent' = Sent(c, op, rates_cache.data)
                /\ rates_cache' = ReturnCached(rates_cache)
           ELSE /\ rates_cache' = MarkUpdating(rates_cache)
                /\ calls' = [calls EXCEPT ![c] =
                        [Idle EXCEPT !.pc = "gather", !.op = op, !.current_time = current_time]]
                /\ UNCHANGED sent
    /\ UNCHANGED <<now, nobj>>

get_rates(c) == Enter(c, "get_rates")

\* refresh_rates: return await get_rates()
refresh_rates(c) == Enter(c, "refresh_rates")

\* get_rates resumes after the await with the list of the gather: assembly,
\* commit, finally, except
Resume(c, results) ==
    /\ calls[c].pc = "gather"
    /\ LET sources  == final_results(results)
           response == AllRatesResponse(nobj + 1, sources)
       IN  IF ValidSources(sources)
           THEN /\ rates_cache' = Finally(Commit(rates_cache, response, calls[c].current_time))
                /\ sent' = Sent(c, calls[c].op, response)
                /\ nobj' = nobj + 1
           ELSE /\ rates_cache' = ExceptClear(Finally(rates_cache))
                /\ sent' = Sent(c, calls[c].op, HTTPException(500))
                /\ nobj' = nobj
    /\ calls' = [calls EXCEPT ![c] = Closed]
    /\ UNCHANGED <<now, ncalls>>

\* what asyncio.gather returns for each of LoadVectors
GatherResults == {[i \in 1..NAdapters |-> Scraper(i, loads[i])] : loads \in LoadVectors}

\* the four scrapers of the gather run to completion and get_rates resumes
Refresh(c) == \E results \in GatherResults : Resume(c, results)

\* the scraper given as the i-th argument of the gather completes
AdapterDone(c, i) ==
    /\ calls[c].pc = "gather"
    /\ calls[c].results[i] = Pending
    /\ \E load \in OrchLoads :
          LET ndone == Cardinality({j \in 1..NAdapters : calls[c].results[j] # Pending})
          IN  calls' = [calls EXCEPT ![c].loads[i] = load,
                                     ![c].results[GatherSlot(i, ndone)] = Scraper(i, load)]
    /\ UNCHANGED <<rates_cache, now, ncalls, nobj, sent>>

\* all four are done: the gather hands its list to get_rates
Finish(c) ==
    /\ \A i \in 1..NAdapters : calls[c].results[i] # Pending
    /\ Resume(c, calls[c].results)

\* the task running get_rates is cancelled while it awaits the gather:
\* CancelledError passes the finally block and no "except Exception"
Cancel(c) ==
    /\ calls[c].pc = "gather"
    /\ rates_cache' = Finally(rates_cache)
    /\ calls' = [calls EXCEPT ![c] = Closed]
    /\ sent' = Sent(c, calls[c].op, CancelledError)
    /\ UNCHANGED <<now, ncalls, nobj>>

\* one second passes
Tick ==
    /\ now < cache_duration + MaxTicks
    /\ now' = now + 1
    /\ UNCHANGED <<rates_cache, calls, ncalls, nobj, sent>>

\* the module-level rates_cache; the clock of a running process is past
\* cache_duration, so that (time.time() - 0) < cache_duration is false
Init ==
    /\ rates_cache = [data |-> None, last_updated |-> 0, updating |-> FALSE]
    /\ now = cache_duration
    /\ calls = [c \in Callers |-> Idle]
    /\ ncalls = 0
    /\ nobj = 0
    /\ sent = Sent(0, "none", None)

Next ==
    \/ \E c \in Callers : get_rates(c)
    \/ \E c \in Callers : refresh_rates(c)
    \/ \E c \in Callers : Refresh(c)
    \/ \E c \in Callers : Cancel(c)
    \/ Tick

Spec == Init /\ [][Next]_vars

\* the first request on the empty cache, its four scrapers completing one by
\* one in any order
NextOrch ==
    \/ get_rates(1)
    \/ \E i \in 1..NAdapters : AdapterDone(1, i)
    \/ Finish(1)

SpecOrch == Init /\ [][NextOrch]_vars

\* the scraper given as the i-th argument completes on the page load it met
Scrape(c, i) ==
    /\ calls[c].pc = "gather"
    /\ calls[c].results[i] = Pending
    /\ LET ndone == Cardinality({j \in 1..NAdapters : calls[c].results[j] # Pending})
       IN  calls' = [calls EXCEPT
                        ![c].results[GatherSlot(i, ndone)] = Scraper(i, calls[c].loads[i])]
    /\ UNCHANGED <<rates_cache, now, ncalls, nobj, sent>>

\* the first request has entered get_rates on the empty cache and awaits the
\* gather; the four sites are about to serve the same page load
InitScrape ==
    \E load \in ScrapeLoads :
        /\ rates_cache = MarkUpdating([data |-> None, last_updated |-> 0, updating |-> FALSE])
        /\ now = cache_duration
        /\ calls = [c \in Callers |->
                       IF c = 1
                       THEN [Idle EXCEPT !.pc = "gather", !.op = "get_rates",
                                         !.current_time = cache_duration,
                                         !.loads = [i \in 1..NAdapters |-> load]]
                       ELSE Idle]
        /\ ncalls = 1
        /\ nobj = 0
        /\ sent = Sent(0, "none", None)

NextScrape ==
    \/ \E i \in 1..NAdapters : Scrape(1, i)
    \/ Finish(1)

\* the scrapers applied to every page of Pages and to every failed load
SpecScrape == InitScrape /\ [][NextScrape]_vars

\* every scraper returns (page.goto carries a 30 s timeout) and the event
\* loop resumes the coroutine that awaits the gather
FairSpec == Spec /\ \A c \in Callers : WF_vars(Refresh(c))

-----------------------------------------------------------------------------
(* Properties *)

InFlight == {c \in Callers : calls[c].pc = "gather"}

\* request c enters get_rates in this step
Arrives(c) == calls[c].pc = "idle" /\ calls'[c].pc # "idle"

\* ... and is answered in the same step with the stored object, nothing else changing
ServedFromCache(c) ==
    /\ calls'[c].pc = "closed"
    /\ sent'.call = c
    /\ sent'.ret = rates_cache.data
    /\ rates_cache' = rates_cache
    /\ nobj' = nobj

\* the route request c came in by
ArrivesVia(c, op) ==
    /\ Arrives(c)
    /\ IF calls'[c].pc = "gather" THEN calls'[c].op = op ELSE sent'.call = c /\ sent'.op = op

\* the gather of request c ends in this step and get_rates runs to its end
Leaves(c) == calls[c].pc = "gather" /\ calls'[c].pc = "closed"

IsResponse(r) == r.kind = "AllRatesResponse"

\* C1: single-flight - in no reachable state are two orchestration runs
\* (gathers over the four scrapers) in flight at the same time.
C1_SingleFlight == Cardinality(InFlight) <= 1

\* C2: stale-while-revalidate - a get_rates call made while the cache holds a
\* value and updating is True returns the stored value in the same step,
\* fresh or not, without waiting and without starting a gather of its own.
C2_StaleWhileRevalidate ==
    [][\A c \in Callers :
          (Arrives(c) /\ rates_cache.data # None /\ rates_cache.updating)
              => ServedFromCache(c)]_vars

\* C2 witness: a refresh is in flight over a stored value, and a request that
\* arrived after it began has been answered with that stored value.
C2_Witness ==
    /\ rates_cache.updating
    /\ rates_cache.data # None
    /\ \E c \in InFlight : sent.call > c
    /\ sent.ret = rates_cache.data

\* C3: fresh hit - a get_rates call made while the cache holds a value and
\* now - last_updated < cache_duration returns exactly the stored object and
\* starts no gather; the stored object is the one the committing call returned.
C3_FreshHit ==
    [][/\ \A c \in Callers :
            (Arrives(c) /\ rates_cache.data # None
                /\ now - rates_cache.last_updated < cache_duration)
                => ServedFromCache(c)
       /\ rates_cache'.data # rates_cache.data => sent'.ret = rates_cache'.data]_vars

\* C3 witness: the second request was answered, within the TTL, with the one
\* object the first request built and stored.
C3_Witness ==
    /\ ncalls = 2 /\ nobj = 1 /\ sent.call = 2
    /\ IsResponse(sent.ret) /\ sent.ret = rates_cache.data
    /\ now - rates_cache.last_updated < cache_duration

\* C4: freshness is measured from the commit - the step that stores a new
\* value stores last_updated = the time of that step.
C4_CapturedAtCommit ==
    [][rates_cache'.data # rates_cache.data => rates_cache'.last_updated = now]_vars

\* C5: forced refresh bypasses Fresh - a refresh_rates call made while the
\* cache is fresh and no refresh is in flight starts a gather.
C5_ForcedRefreshBypassesFresh ==
    [][\A c \in Callers :
          (ArrivesVia(c, "refresh_rates") /\ rates_cache.data # None
              /\ now - rates_cache.last_updated < cache_duration
              /\ ~rates_cache.updating)
              => calls'[c].pc = "gather"]_vars

\* C6: a refresh that fails as a whole falls back to the stored value - the
\* HTTP 500 reaches the caller only when no value has ever been stored.
C6_StaleOnFailure ==
    [][\A c \in Callers :
          (Leaves(c) /\ sent'.ret = HTTPException(500)) => rates_cache.data = None]_vars

\* C7: the in-flight flag is released on every exit path - a call that leaves
\* its refresh (commit, raise or cancellation) leaves updating False, updating
\* is never True with no refresh running, and updating = True leads to
\* updating = False.
C7_FlagReleased ==
    /\ [][\A c \in Callers : Leaves(c) => ~rates_cache'.updating]_vars
    /\ [](rates_cache.updating => InFlight # {})
    /\ (rates_cache.updating ~> ~rates_cache.updating)

\* C7 witness: a refresh has ended by raising or by cancellation, and the
\* flag is down.
C7_Witness ==
    /\ sent.ret \in {HTTPException(500), CancelledError}
    /\ ~rates_cache.updating
    /\ InFlight = {}

\* the AllRatesResponse objects get_rates has stored or returned last
Aggregates == {r \in {rates_cache.data, sent.ret} : IsResponse(r)}

\* the scrapers of request c that have completed
Done(c) == {i \in 1..NAdapters : calls[c].results[i] # Pending}

\* C8: every AllRatesResponse that get_rates returns or stores has one entry
\* per configured scraper, and entry i is a SourceRates of the i-th declared
\* source, for every combination of outcomes and every completion order.
C8_FixedOrder ==
    \A r \in Aggregates :
        /\ DOMAIN r.sources = 1..NAdapters
        /\ \A i \in 1..NAdapters :
              /\ IsSourceRates(r.sources[i])
              /\ r.sources[i].source = source_names[i]
              /\ r.sources[i].url = urls[i]

\* C8 witness: a response with failed and successful sources has been returned
\* and stored.
C8_Witness ==
    /\ IsResponse(sent.ret) /\ sent.ret = rates_cache.data
    /\ sent.ret.sources[1].status = "error"
    /\ sent.ret.sources[2].status = "success"
    /\ sent.ret.sources[3].status = "error"
    /\ sent.ret.sources[4].status = "success"

\* the tasks of request c that ended in an exception instead of a SourceRates
Failed(c) == {i \in 1..NAdapters : ~IsSourceRates(calls[c].results[i])}

\* C9: failure isolation - when some of the four tasks end in an uncaught
\* failure (cancellation of the task included), the batch still succeeds:
\* each failed entry is replaced in place by an error SourceRates with empty
\* rates and the source's static name and URL, the other entries are unchanged.
C9_FailureIsolation ==
    [][\A c \in Callers :
          (Leaves(c) /\ Done(c) = 1..NAdapters /\ Failed(c) # {})
              => /\ IsResponse(sent'.ret)
                 /\ \A i \in Failed(c) :
                       /\ IsSourceRates(sent'.ret.sources[i])
                       /\ sent'.ret.sources[i].status = "error"
                       /\ sent'.ret.sources[i].rates = EmptyDict
                       /\ sent'.ret.sources[i].source = source_names[i]
                       /\ sent'.ret.sources[i].url = urls[i]
                 /\ \A i \in (1..NAdapters) \ Failed(c) :
                       sent'.ret.sources[i] = calls[c].results[i]]_vars

\* the page loads and extractions that fail: the load timed out or broke, or
\* the page yields no quote
LoadFailed(load) == load.kind \in {"TimeoutError", "Error"}

NothingExtracted(load) == load \in {LoadOk(PageEmpty), LoadOk(PageBad)}

\* C10: a scraper never raises past its boundary - a failed page load or a
\* failed extraction ends in a returned SourceRates with status error, no
\* rates and an error message, no Exception reaches the gather, and a scraper
\* whose own page is good returns success whatever happened to its siblings.
C10_AdapterBoundary ==
    \A c \in Callers : \A i \in Done(c) :
        LET load == calls[c].loads[i]
            r    == calls[c].results[i]
        IN  /\ ~IsException(r)
            /\ (LoadFailed(load) \/ NothingExtracted(load))
                  => /\ IsSourceRates(r)
                     /\ r.status = "error"
                     /\ r.rates = EmptyDict
                     /\ r.error_message # None
                     /\ r.source = source_names[i]
            /\ load = LoadOk(PageUSD)
                  => /\ IsSourceRates(r)
                     /\ r.status = "success"
                     /\ DOMAIN r.rates = {"USD"}

\* C10 witness: one scraper timed out, one found nothing to extract, and a
\* sibling that completed after them returned its quotes.
C10_Witness ==
    /\ calls[1].pc = "gather"
    /\ calls[1].loads[1] = LoadFail("TimeoutError")
    /\ calls[1].loads[2] = LoadOk(PageBad)
    /\ calls[1].loads[3] = LoadOk(PageUSD)
    /\ calls[1].results[1].status = "error"
    /\ calls[1].results[2].status = "error"
    /\ calls[1].results[3].status = "success"
    /\ calls[1].results[4] = Pending

\* C11: an error result carries no quotes - every SourceRates a scraper
\* returned, and every SourceRates inside a response that was returned or is
\* held in the cache, has empty rates whenever its status is "error"; this
\* covers the scrapers' normal tail, their except branch and the entries
\* get_rates builds itself.
C11_ErrorHasNoQuotes ==
    /\ \A c \in Callers : \A i \in Done(c) :
          LET r == calls[c].results[i]
          IN  (IsSourceRates(r) /\ r.status = "error") => r.rates = EmptyDict
    /\ \A a \in Aggregates : \A i \in 1..Len(a.sources) :
          a.sources[i].status = "error" => a.sources[i].rates = EmptyDict
    /\ \A results \in {calls[c].results : c \in InFlight} :
          \A i \in 1..NAdapters :
             LET r == final_results(results)[i]
             IN  (IsSourceRates(r) /\ r.status = "error") => r.rates = EmptyDict

\* C11 witness: the response that is returned and cached holds an error entry
\* (scrape_ahlatci finds no row it knows) next to a success entry with a
\* quote (scrape_haremaltin reads the gold row of the same page).
C11_Witness ==
    /\ IsResponse(sent.ret)
    /\ rates_cache.data = sent.ret
    /\ sent.ret.sources[1].status = "error"
    /\ sent.ret.sources[1].rates = EmptyDict
    /\ sent.ret.sources[2].status = "success"
    /\ DOMAIN sent.ret.sources[2].rates = {"XAU"}

\* the SourceRates the scrapers have returned so far and those inside a
\* response that was returned or is cached
Returned ==
    {calls[c].results[i] : c \in Callers, i \in 1..NAdapters}
    \cup UNION {{a.sources[i] : i \in 1..Len(a.sources)} : a \in Aggregates}

\* the load was a rendered page
PageOf(c, i) == calls[c].loads[i].doc

\* C12: prices are strictly positive - every ExchangeRate stored in a
\* SourceRates has buy > 0 and sell > 0, for each of the four scrapers and
\* each of the five currency codes; a page whose only candidates have a zero
\* or negative price yields no quote at all.
C12_PositivePrices ==
    /\ \A r \in Returned :
          IsSourceRates(r) =>
             \A k \in DOMAIN r.rates : r.rates[k].buy > 0 /\ r.rates[k].sell > 0
    /\ \A c \in Callers : \A i \in Done(c) :
          (/\ calls[c].loads[i].kind = "ok"
           /\ PageOf(c, i).lis \in SeqUpTo({TxtHakanZero}, MaxRows)
           /\ PageOf(c, i).trs \in SeqUpTo({<<TxtUSD, Txt0, Txt4201>>,
                                             <<TxtUSD, Txt4182, TxtNeg>>}, MaxRows)
           /\ PageOf(c, i).divs \in SeqUpTo({d \in DivSet : d.text = <<"A", "l", "t", "i", "n">>},
                                              MaxRows))
              => calls[c].results[i].rates = EmptyDict

\* C12 witness: the page has a dollar row whose buy price is zero and then a
\* euro row; the three scrapers that read table rows have each stored the
\* euro quote only.
C12_Witness ==
    /\ calls[1].loads[1] = LoadOk(Doc(<< <<TxtUSD, Txt0, Txt4201>>,
                                         <<Curr.EUR, Txt4182, Txt4201>> >>, << >>, << >>))
    /\ \A i \in {1, 2, 4} :
          /\ i \in Done(1)
          /\ DOMAIN calls[1].results[i].rates = {"EUR"}
          /\ calls[1].results[i].rates["EUR"].buy > 0

\* the texts the scrapers look for in a row's first cell, a list item or a
\* block: the five codes, the names of currency_mapping, and the gold pairs
Tokens ==
    {Curr[c] : c \in DOMAIN Curr}
    \cup {currency_mapping[k][1] : k \in DOMAIN currency_mapping}
    \cup {<<"G", "O", "L", "D">>, <<"H", "A", "S">>}

HasToken(text) == \E t \in Tokens : Contains(Upper(text), t)

\* no element of the page matches a currency token
NoTokenPage(doc) ==
    /\ \A k \in DOMAIN doc.trs : doc.trs[k] = << >> \/ ~HasToken(doc.trs[k][1])
    /\ \A k \in DOMAIN doc.lis : ~HasToken(doc.lis[k])
    /\ \A k \in DOMAIN doc.divs : ~HasToken(doc.divs[k].text)

\* the result of a scraper whose page matched nothing, with error_message msg
NoTokenResult(msg) ==
    \A c \in Callers : \A i \in Done(c) :
        (calls[c].loads[i].kind = "ok" /\ NoTokenPage(PageOf(c, i)))
            => /\ IsSourceRates(calls[c].results[i])
               /\ calls[c].results[i].status = "error"
               /\ calls[c].results[i].rates = EmptyDict
               /\ calls[c].results[i].error_message = Str(msg)

Candidates(i, doc) ==
    CASE i = 1 -> [k \in DOMAIN doc.trs |-> ahlatci_row(EmptyDict, doc.trs[k])]
      [] i = 2 -> [k \in DOMAIN doc.trs |-> harem_row(EmptyDict, doc.trs[k])]
      [] i = 3 -> [k \in DOMAIN doc.lis |-> hakan_li(EmptyDict, doc.lis[k])]
      [] i = 4 -> LET rows == [k \in DOMAIN doc.trs |-> carsi_row(EmptyDict, doc.trs[k])]
                  IN  IF \E k \in DOMAIN rows : rows[k] # EmptyDict
                      THEN rows
                      ELSE [k \in DOMAIN doc.divs |-> carsi_div(EmptyDict, doc.divs[k], 1)]

\* the currencies for which some element of the page gives a valid quote
Found(i, doc) ==
    LET cand == Candidates(i, doc)
    IN  UNION {DOMAIN cand[k] : k \in DOMAIN cand}

\* C14: partial success is success - a scraper whose page load succeeded
\* returns status "success" exactly when some element of the page gives a
\* valid quote; its rates hold exactly the currencies for which a valid quote
\* was found, each with a quote some element gave; elements without a valid
\* quote are dropped and do not turn the result into an error.
C14_PartialSuccess ==
    \A c \in Callers : \A i \in Done(c) :
        calls[c].loads[i].kind = "ok" =>
            LET r     == calls[c].results[i]
                cand  == Candidates(i, PageOf(c, i))
                found == Found(i, PageOf(c, i))
            IN  /\ IsSourceRates(r)
                /\ r.status = "success" <=> found # {}
                /\ r.status = "error" <=> found = {}
                /\ DOMAIN r.rates = found
                /\ \A cur \in DOMAIN r.rates :
                      \E k \in DOMAIN cand :
                          cur \in DOMAIN cand[k] /\ r.rates[cur] = cand[k][cur]

\* C14 witness: a sterling row with a quote is followed by a dollar row whose
\* buy price cannot be parsed; scrape_ahlatci has returned success with the
\* sterling quote alone.
C14_Witness ==
    /\ calls[1].loads[1] = LoadOk(Doc(<< <<Curr.GBP, Txt4310, Txt4390>>,
                                         <<TxtUSD, Txt4x, Txt4201>> >>, << >>, << >>))
    /\ 1 \in Done(1)
    /\ calls[1].results[1].status = "success"
    /\ DOMAIN calls[1].results[1].rates = {"GBP"}

FirstQuote(i, doc, cur) ==
    LET cand  == Candidates(i, doc)
        first == CHOOSE k \in DOMAIN cand :
                    /\ cur \in DOMAIN cand[k]
                    /\ \A j \in DOMAIN cand : cur \in DOMAIN cand[j] => k <= j
    IN  cand[first][cur]

\* scraper i kept, for every currency, the quote of the first matching element
FirstMatchWins(i) ==
    \A c \in Callers :
        (i \in Done(c) /\ calls[c].loads[i].kind = "ok") =>
            \A cur \in DOMAIN calls[c].results[i].rates :
                calls[c].results[i].rates[cur] = FirstQuote(i, PageOf(c, i), cur)

\* C16: first match wins - in each of the four scrapers, when several rows of
\* the page match the same currency with valid positive prices, the quote
\* stored for it is the one of the first such row in document order; a later
\* row never overwrites it.
C16_FirstMatchWins == \A i \in 1..NAdapters : FirstMatchWins(i)

\* C17: the updating flag tracks the refresh exactly - in every reachable
\* state rates_cache['updating'] is True if and only if some get_rates call is
\* between the start of its orchestration and the end of its finally block;
\* no call's finally block clears the flag while another call's orchestration
\* is still running.
C17_FlagTracksRefresh == rates_cache.updating <=> InFlight # {}

\* C18: the cache only moves forward - rates_cache['last_updated'] never
\* decreases: no commit replaces the stored value by the result of an
\* orchestration that started earlier than the one that produced it.
C18_MovesForward == [][rates_cache'.last_updated >= rates_cache.last_updated]_vars

\* request c starts an orchestration in this step
StartsRefresh(c) == Arrives(c) /\ calls'[c].pc = "gather"

\* the orchestration of request c ends in this step without a commit
FailsRefresh(c) == Leaves(c) /\ sent'.call = c /\ ~IsResponse(sent'.ret)

C20_CachedReadFrame ==
    [][\A c \in Callers :
          (Arrives(c) /\ calls'[c].pc = "closed")
              => /\ rates_cache'.data = rates_cache.data
                 /\ rates_cache'.last_updated = rates_cache.last_updated
                 /\ rates_cache'.updating = rates_cache.updating]_vars

\* C20 witness: a request has just been answered with the stored response
\* while the refresh of another request is in flight, and the flag is still
\* set.
C20_Witness ==
    /\ IsResponse(sent.ret)
    /\ sent.ret = rates_cache.data
    /\ sent.call \in Callers
    /\ calls[sent.call].pc = "closed"
    /\ InFlight # {}
    /\ sent.call \notin InFlight
    /\ \A c \in InFlight : c < sent.call
    /\ rates_cache.updating

=============================================================================
